---------------------------- MODULE Spec2Model ----------------------------
(***************************************************************************)
(* Model of components/datetime/src/date.rs: the dt_unit! family of        *)
(* bounded unit types (Month, WeekDay, Day, Hour, Minute, Second), the     *)
(* DateTimeError type and the MockDateTime composite with its checked      *)
(* constructor and its fixed-position string parser.                       *)
(*                                                                         *)
(* A &str is modelled as the sequence of its UTF-8 bytes; an ASCII byte is *)
(* written as the one-character string it encodes, and the two bytes of    *)
(* the non-ASCII character U+00E9 as "C3" and "A9".  Every function of the *)
(* source is an operator that computes its outcome as the code does:       *)
(*   [tag |-> "Ok", val |-> v]       a returned Ok(v)                      *)
(*   [tag |-> "Err", err |-> e]      a returned Err(e)                     *)
(*   [tag |-> "Panic", why |-> w]    the call aborts (no value returned)   *)
(***************************************************************************)
EXTENDS Integers, Sequences, FiniteSets, TLC

VARIABLES
    pc,               \* "idle" before the call, "done" after it
    overflow_checks,  \* build setting: TRUE (debug) panics on u8 overflow, FALSE (release) wraps
    op,               \* the function that was called
    kind,             \* the unit type of the call ("none" for MockDateTime calls)
    raw,              \* integer argument of try_from
    input,            \* &str argument of from_str, as bytes
    args,             \* <<year, month, day, hour, minute, second>> of try_new
    result,           \* outcome of the call
    other,            \* a second &str, parsed independently of input
    other_result      \* outcome of parsing other

vars == <<pc, overflow_checks, op, kind, raw, input, args, result, other, other_result>>

---------------------------------------------------------------------------
(* Bounds of the model *)

\* try_from(usize) is applied to every value 0..MaxRaw
MaxRaw == 300
\* Unit::from_str is applied to every text of at most MaxFieldLen bytes over FieldAlphabet
MaxFieldLen == 3
\* MockDateTime::from_str texts deviate from BaseText in at most MaxOdd fields
MaxOdd == 3
\* texts longer than 19 bytes carry at most MaxTail trailing bytes
MaxTail == 1
\* the texts parsed in pairs deviate from BaseText in at most MaxOddPair fields
MaxOddPair == 3

---------------------------------------------------------------------------
(* Program constants *)

MonthMax == 12
WeekDayMax == 7
DayMax == 32
HourMax == 24
MinuteMax == 60
SecondMax == 60

\* u8::MAX, the storage type of every unit
U8Max == 255
\* usize::MAX is at least 2^32 - 1; the year slice is four bytes long, so
\* no year text reaches the limit and the model keeps it at the largest
\* integer TLC represents.
UsizeMax == 2147483647

Kinds == {"Month", "WeekDay", "Day", "Hour", "Minute", "Second"}

Max(k) ==
    CASE k = "Month" -> MonthMax
      [] k = "WeekDay" -> WeekDayMax
      [] k = "Day" -> DayMax
      [] k = "Hour" -> HourMax
      [] k = "Minute" -> MinuteMax
      [] k = "Second" -> SecondMax

---------------------------------------------------------------------------
(* Outcomes and DateTimeError *)

Ok(v) == [tag |-> "Ok", val |-> v]
Err(e) == [tag |-> "Err", err |-> e]
Panic(w) == [tag |-> "Panic", why |-> w]

IsOk(r) == r.tag = "Ok"
IsErr(r) == r.tag = "Err"
IsPanic(r) == r.tag = "Panic"

\* DateTimeError::Parse(ParseIntError { kind })
ParseError(k) == [variant |-> "Parse", kind |-> k]

\* The macro body writes field: "$name".  macro_rules! does not substitute
\* metavariables inside a string literal, so every instantiation carries
\* the same five-character text.
FieldName(k) == "$name"

\* DateTimeError::Overflow { field, max } as built by the unit type k
Overflow(k) == [variant |-> "Overflow", field |-> FieldName(k), max |-> Max(k)]

\* impl fmt::Display for DateTimeError
Display(e) ==
    IF e.variant = "Parse"
    THEN e.kind
    ELSE e.field \o " must be between 0-" \o ToString(e.max)


---------------------------------------------------------------------------
(* &str as UTF-8 bytes *)

\* value of an ASCII decimal digit byte (char::to_digit with radix 10)
DigitVal ==
    [c \in {"0", "1", "2", "3", "4", "5", "6", "7", "8", "9"} |->
        CASE c = "0" -> 0 [] c = "1" -> 1 [] c = "2" -> 2 [] c = "3" -> 3
          [] c = "4" -> 4 [] c = "5" -> 5 [] c = "6" -> 6 [] c = "7" -> 7
          [] c = "8" -> 8 [] c = "9" -> 9]

IsDigit(b) == b \in DOMAIN DigitVal

\* a UTF-8 continuation byte (10xxxxxx); the only one in the model is "A9"
IsContinuation(b) == b = "A9"

\* str::is_char_boundary(i), i a 0-based byte offset
is_char_boundary(s, i) ==
    \/ i = 0
    \/ i = Len(s)
    \/ i < Len(s) /\ ~IsContinuation(s[i + 1])

\* the index expression input[a..b]: aborts when a is past b, when b is
\* past the end or when a or b falls inside a character
str_index(s, a, b) ==
    IF a <= b /\ b <= Len(s) /\ is_char_boundary(s, a) /\ is_char_boundary(s, b)
    THEN Ok(SubSeq(s, a + 1, b))
    ELSE Panic("slice")

\* the digit loop of the integer parser: each byte is converted to a digit
\* (InvalidDigit), then the accumulator is multiplied by ten and the digit
\* added, both checked against the type's maximum (PosOverflow)
RECURSIVE parse_digits(_, _, _)
parse_digits(digits, acc, limit) ==
    IF digits = <<>> THEN Ok(acc)
    ELSE IF ~IsDigit(Head(digits)) THEN Err(ParseError("InvalidDigit"))
    ELSE IF acc * 10 > limit THEN Err(ParseError("PosOverflow"))
    ELSE IF acc * 10 + DigitVal[Head(digits)] > limit THEN Err(ParseError("PosOverflow"))
    ELSE parse_digits(Tail(digits), acc * 10 + DigitVal[Head(digits)], limit)

\* <unsigned integer>::from_str: empty text is an error, a lone sign is an
\* error, one leading '+' is skipped, a leading '-' is not a sign of an
\* unsigned type and is read as a digit
parse_unsigned(s, limit) ==
    IF s = <<>> THEN Err(ParseError("Empty"))
    ELSE IF Len(s) = 1 /\ Head(s) \in {"+", "-"} THEN Err(ParseError("InvalidDigit"))
    ELSE IF Head(s) = "+" THEN parse_digits(Tail(s), 0, limit)
    ELSE parse_digits(s, 0, limit)

\* input.parse::<u8>()
parse_u8(s) == parse_unsigned(s, U8Max)

\* input.parse::<usize>()
parse_usize(s) == parse_unsigned(s, UsizeMax)

---------------------------------------------------------------------------
(* dt_unit!($name, $value): a value of a unit type is its u8 *)

\* $name::new_unchecked
new_unchecked(k, v) == v

\* a text that is no number read as the default value 0
Unit_from_str_lenient(k, s) ==
    LET val == parse_u8(s) IN
    IF ~IsOk(val) THEN Ok(0)
    ELSE IF val.val > Max(k) THEN Err(Overflow(k))
    ELSE Ok(val.val)

\* impl FromStr for $name
Unit_from_str(k, s) ==
    LET val == parse_u8(s) IN
    IF ~IsOk(val) THEN val
    ELSE IF val.val > Max(k) THEN Err(Overflow(k))
    ELSE Ok(val.val)

\* impl TryFrom<u8> for $name
Unit_try_from_u8(k, v) ==
    IF v > Max(k) THEN Err(Overflow(k)) ELSE Ok(v)

\* the cast made before the comparison instead of after it
Unit_try_from_usize_cast_first(k, v) ==
    IF v % (U8Max + 1) > Max(k) THEN Err(Overflow(k)) ELSE Ok(v % (U8Max + 1))

\* impl TryFrom<usize> for $name: the comparison is made on the usize, the
\* cast to u8 (truncation to the low eight bits) after it
Unit_try_from_usize(k, v) ==
    IF v > Max(k) THEN Err(Overflow(k)) ELSE Ok(v % (U8Max + 1))

\* impl From<$name> for u8
Unit_into_u8(k, u) == u

\* impl From<$name> for usize
Unit_into_usize(k, u) == u

\* impl Add<u8> for $name: u8 addition, which aborts on overflow when the
\* build checks overflow and wraps otherwise
Unit_add(checks, k, u, n) ==
    IF u + n > U8Max /\ checks THEN Panic("overflow")
    ELSE Ok((u + n) % (U8Max + 1))

\* impl Sub<u8> for $name: u8 subtraction, which aborts on overflow when the
\* build checks overflow and wraps otherwise
Unit_sub(checks, k, u, n) ==
    IF u < n /\ checks THEN Panic("overflow")
    ELSE Ok((u - n) % (U8Max + 1))

---------------------------------------------------------------------------
(* MockDateTime *)

\* MockDateTime::new
new(y, mo, d, h, mi, s) ==
    [year |-> y, month |-> mo, day |-> d, hour |-> h, minute |-> mi, second |-> s]

\* the day converted before the month
try_new_day_first(y, mo, d, h, mi, s) ==
    LET month == Unit_try_from_usize("Month", mo)
        day == Unit_try_from_usize("Day", d)
        hour == Unit_try_from_usize("Hour", h)
        minute == Unit_try_from_usize("Minute", mi)
        second == Unit_try_from_usize("Second", s)
    IN  IF ~IsOk(day) THEN day
        ELSE IF ~IsOk(month) THEN month
        ELSE IF ~IsOk(hour) THEN hour
        ELSE IF ~IsOk(minute) THEN minute
        ELSE IF ~IsOk(second) THEN second
        ELSE Ok(new(y, month.val, day.val, hour.val, minute.val, second.val))

\* month and day stored zero-indexed, as the string parser stores them
try_new_zero_indexed(y, mo, d, h, mi, s) ==
    LET month == Unit_try_from_usize("Month", mo)
        day == Unit_try_from_usize("Day", d)
        hour == Unit_try_from_usize("Hour", h)
        minute == Unit_try_from_usize("Minute", mi)
        second == Unit_try_from_usize("Second", s)
    IN  IF ~IsOk(month) THEN month
        ELSE IF ~IsOk(day) THEN day
        ELSE IF ~IsOk(hour) THEN hour
        ELSE IF ~IsOk(minute) THEN minute
        ELSE IF ~IsOk(second) THEN second
        ELSE Ok(new(y, (month.val - 1) % (U8Max + 1), (day.val - 1) % (U8Max + 1),
                    hour.val, minute.val, second.val))

\* MockDateTime::try_new: the conversions run in field order and the first
\* failing one returns its error
try_new(y, mo, d, h, mi, s) ==
    LET month == Unit_try_from_usize("Month", mo)
        day == Unit_try_from_usize("Day", d)
        hour == Unit_try_from_usize("Hour", h)
        minute == Unit_try_from_usize("Minute", mi)
        second == Unit_try_from_usize("Second", s)
    IN  IF ~IsOk(month) THEN month
        ELSE IF ~IsOk(day) THEN day
        ELSE IF ~IsOk(hour) THEN hour
        ELSE IF ~IsOk(minute) THEN minute
        ELSE IF ~IsOk(second) THEN second
        ELSE Ok(new(y, month.val, day.val, hour.val, minute.val, second.val))

\* impl DateTimeType for MockDateTime, each unit converted back to usize
year(dt) == dt.year
month(dt) == Unit_into_usize("Month", dt.month)
day(dt) == Unit_into_usize("Day", dt.day)
hour(dt) == Unit_into_usize("Hour", dt.hour)
minute(dt) == Unit_into_usize("Minute", dt.minute)
second(dt) == Unit_into_usize("Second", dt.second)

\* one statement `let f = input[a..b].parse()?`: the slice, then the parse
parse_slice_usize(s, a, b) ==
    LET sl == str_index(s, a, b) IN
    IF IsPanic(sl) THEN sl ELSE parse_usize(sl.val)

parse_slice_unit(k, s, a, b) ==
    LET sl == str_index(s, a, b) IN
    IF IsPanic(sl) THEN sl ELSE Unit_from_str(k, sl.val)

\* the day stored as parsed, without the decrement
from_str_day_as_parsed(checks, s) ==
    LET y == parse_slice_usize(s, 0, 4) IN
    IF ~IsOk(y) THEN y ELSE
    LET mo == parse_slice_unit("Month", s, 5, 7) IN
    IF ~IsOk(mo) THEN mo ELSE
    LET d == parse_slice_unit("Day", s, 8, 10) IN
    IF ~IsOk(d) THEN d ELSE
    LET h == parse_slice_unit("Hour", s, 11, 13) IN
    IF ~IsOk(h) THEN h ELSE
    LET mi == parse_slice_unit("Minute", s, 14, 16) IN
    IF ~IsOk(mi) THEN mi ELSE
    LET se == parse_slice_unit("Second", s, 17, 19) IN
    IF ~IsOk(se) THEN se ELSE
    LET mo1 == Unit_sub(checks, "Month", mo.val, 1) IN
    IF ~IsOk(mo1) THEN mo1 ELSE
    Ok(new(y.val, mo1.val, d.val, h.val, mi.val, se.val))

\* the seconds read to the end of the text, input[17..]
from_str_open_end(checks, s) ==
    LET y == parse_slice_usize(s, 0, 4) IN
    IF ~IsOk(y) THEN y ELSE
    LET mo == parse_slice_unit("Month", s, 5, 7) IN
    IF ~IsOk(mo) THEN mo ELSE
    LET d == parse_slice_unit("Day", s, 8, 10) IN
    IF ~IsOk(d) THEN d ELSE
    LET h == parse_slice_unit("Hour", s, 11, 13) IN
    IF ~IsOk(h) THEN h ELSE
    LET mi == parse_slice_unit("Minute", s, 14, 16) IN
    IF ~IsOk(mi) THEN mi ELSE
    LET se == parse_slice_unit("Second", s, 17, Len(s)) IN
    IF ~IsOk(se) THEN se ELSE
    LET mo1 == Unit_sub(checks, "Month", mo.val, 1) IN
    IF ~IsOk(mo1) THEN mo1 ELSE
    LET d1 == Unit_sub(checks, "Day", d.val, 1) IN
    IF ~IsOk(d1) THEN d1 ELSE
    Ok(new(y.val, mo1.val, d1.val, h.val, mi.val, se.val))

\* impl FromStr for MockDateTime: six statements in order, each returning
\* (or aborting) at the first failure; then month - 1 and day - 1, in the
\* order of the struct expression
from_str(checks, s) ==
    LET y == parse_slice_usize(s, 0, 4) IN
    IF ~IsOk(y) THEN y ELSE
    LET mo == parse_slice_unit("Month", s, 5, 7) IN
    IF ~IsOk(mo) THEN mo ELSE
    LET d == parse_slice_unit("Day", s, 8, 10) IN
    IF ~IsOk(d) THEN d ELSE
    LET h == parse_slice_unit("Hour", s, 11, 13) IN
    IF ~IsOk(h) THEN h ELSE
    LET mi == parse_slice_unit("Minute", s, 14, 16) IN
    IF ~IsOk(mi) THEN mi ELSE
    LET se == parse_slice_unit("Second", s, 17, 19) IN
    IF ~IsOk(se) THEN se ELSE
    LET mo1 == Unit_sub(checks, "Month", mo.val, 1) IN
    IF ~IsOk(mo1) THEN mo1 ELSE
    LET d1 == Unit_sub(checks, "Day", d.val, 1) IN
    IF ~IsOk(d1) THEN d1 ELSE
    Ok(new(y.val, mo1.val, d1.val, h.val, mi.val, se.val))

---------------------------------------------------------------------------
(* Inputs *)

\* bytes the unit parser is fed, one at a time
FieldAlphabet == {"0", "1", "2", "3", "5", "6", "+", "X"}

RECURSIVE TextsUpTo(_, _)
TextsUpTo(alphabet, n) ==
    IF n = 0 THEN {<<>>}
    ELSE LET shorter == TextsUpTo(alphabet, n - 1) IN
         shorter \cup {Append(t, c) : t \in {u \in shorter : Len(u) = n - 1}, c \in alphabet}

FieldTexts == TextsUpTo(FieldAlphabet, MaxFieldLen)

DigitChar == <<"0", "1", "2", "3", "4", "5", "6", "7", "8", "9">>

\* a number below 100 written with two decimal digits, below 10000 with four
TwoDigits(n) == <<DigitChar[(n \div 10) + 1], DigitChar[(n % 10) + 1]>>
FourDigits(n) == TwoDigits(n \div 100) \o TwoDigits(n % 100)

\* the fields of "2020-09-24T13:21:00": the date of the try_new example of the
\* source, in the layout of the parser
BaseFields == <<FourDigits(2020), TwoDigits(9), TwoDigits(24), TwoDigits(13), TwoDigits(21), TwoDigits(0)>>

FieldKind == <<"Year", "Month", "Day", "Hour", "Minute", "Second">>

\* what a field of a text may hold besides its base value: numbers at and
\* next to the limits of the field, and texts that are not all digits; the
\* lean choice keeps one of each sort
FieldOptions(i, lean) ==
    IF i = 1
    THEN IF lean THEN {<<"2", "0", "X", "0">>}
         ELSE {FourDigits(0), FourDigits(9999), <<"+", "2", "0", "2">>,
               <<"2", "0", "X", "0">>, <<"2", " ", "2", "0">>}
    ELSE IF lean THEN {TwoDigits(0), TwoDigits(Max(FieldKind[i]) + 1), <<"1", "X">>}
         ELSE {TwoDigits(n) : n \in {0, 1, Max(FieldKind[i]), Max(FieldKind[i]) + 1}}
              \cup {<<"+", "9">>, <<"-", "1">>, <<"1", "X">>}

\* the 19-byte text with the given six fields and the given five delimiters
Assemble(f, d) ==
    f[1] \o <<d[1]>> \o f[2] \o <<d[2]>> \o f[3] \o <<d[3]>> \o f[4] \o <<d[4]>> \o f[5] \o <<d[5]>> \o f[6]

Delimiters == <<"-", "-", "T", ":", ":">>

BaseText == Assemble(BaseFields, Delimiters)

\* tuples of the fields i..6 that differ from the base in at most n fields
RECURSIVE FieldsFrom(_, _, _)
FieldsFrom(i, n, lean) ==
    IF i > 6 THEN {<<>>}
    ELSE {<<BaseFields[i]>> \o r : r \in FieldsFrom(i + 1, n, lean)}
         \cup (IF n = 0 THEN {}
               ELSE {<<o>> \o r : o \in FieldOptions(i, lean) \ {BaseFields[i]},
                                  r \in FieldsFrom(i + 1, n - 1, lean)})

\* field tuples that differ from the base in at most n fields
FieldsWithin(n, lean) == FieldsFrom(1, n, lean)

\* 19-byte ASCII texts with the delimiters of the layout
LayoutTexts == {Assemble(f, Delimiters) : f \in FieldsWithin(MaxOdd, FALSE)}

\* texts shorter than the layout: every proper prefix of the base text
ShortTexts == {SubSeq(BaseText, 1, n) : n \in 0..(Len(BaseText) - 1)}

\* trailing bytes after position 18
Tails == TextsUpTo({"0"}, MaxTail)

\* the base text with its p-th character replaced by U+00E9 (two bytes)
NonAsciiTexts ==
    {SubSeq(BaseText, 1, p - 1) \o <<"C3", "A9">> \o SubSeq(BaseText, p + 1, Len(BaseText)) :
        p \in 1..Len(BaseText)}

DateTimeTexts ==
    LayoutTexts \cup ShortTexts \cup NonAsciiTexts \cup {BaseText \o t : t \in Tails}

\* byte offsets (0-based) of the five delimiters of the layout
DelimiterOffsets == {4, 7, 10, 13, 16}

\* texts that agree with t on the six numeric fields: t with at most one
\* delimiter replaced by a digit, followed by a tail
Variants(t) ==
    {[i \in 1..Len(t) |-> IF i - 1 = p THEN "0" ELSE t[i]] \o tl :
        p \in DelimiterOffsets \cup {-1}, tl \in Tails}

PairTexts == {Assemble(f, Delimiters) : f \in FieldsWithin(MaxOddPair, TRUE)}

\* arguments of try_new: values at and next to each limit, and values whose
\* low eight bits are in range
ArgSamples(k) == {0, 1, Max(k), Max(k) + 1, U8Max + 1, U8Max + 1 + Max(k)}

YearSamples == {2020, 70000}

---------------------------------------------------------------------------
(* The state machine: one call, from "idle" to "done" *)

None == [tag |-> "None"]

Init ==
    /\ pc = "idle"
    /\ overflow_checks \in BOOLEAN
    /\ op = "none"
    /\ kind = "none"
    /\ raw = 0
    /\ input = <<>>
    /\ args = <<>>
    /\ result = None
    /\ other = <<>>
    /\ other_result = None

\* $name::try_from(v: u8)
TryFromU8 ==
    /\ pc = "idle"
    /\ \E k \in Kinds, v \in 0..U8Max :
        /\ kind' = k
        /\ raw' = v
        /\ result' = Unit_try_from_u8(k, v)
    /\ op' = "try_from_u8"
    /\ pc' = "done"
    /\ UNCHANGED <<overflow_checks, input, args, other, other_result>>

\* $name::try_from(v: usize)
TryFromUsize ==
    /\ pc = "idle"
    /\ \E k \in Kinds, v \in 0..MaxRaw :
        /\ kind' = k
        /\ raw' = v
        /\ result' = Unit_try_from_usize(k, v)
    /\ op' = "try_from_usize"
    /\ pc' = "done"
    /\ UNCHANGED <<overflow_checks, input, args, other, other_result>>

\* text.parse::<$name>()
UnitFromStr ==
    /\ pc = "idle"
    /\ \E k \in Kinds, s \in FieldTexts :
        /\ kind' = k
        /\ input' = s
        /\ result' = Unit_from_str(k, s)
    /\ op' = "unit_from_str"
    /\ pc' = "done"
    /\ UNCHANGED <<overflow_checks, raw, args, other, other_result>>

\* MockDateTime::try_new(year, month, day, hour, minute, second)
TryNew ==
    /\ pc = "idle"
    /\ \E y \in YearSamples, mo \in ArgSamples("Month"), d \in ArgSamples("Day"),
          h \in ArgSamples("Hour"), mi \in ArgSamples("Minute"), s \in ArgSamples("Second") :
        /\ args' = <<y, mo, d, h, mi, s>>
        /\ result' = try_new(y, mo, d, h, mi, s)
    /\ op' = "try_new"
    /\ pc' = "done"
    /\ UNCHANGED <<overflow_checks, kind, raw, input, other, other_result>>

\* text.parse::<MockDateTime>()
FromStr ==
    /\ pc = "idle"
    /\ \E s \in DateTimeTexts :
        /\ input' = s
        /\ result' = from_str(overflow_checks, s)
    /\ op' = "from_str"
    /\ pc' = "done"
    /\ UNCHANGED <<overflow_checks, kind, raw, args, other, other_result>>

\* two texts that agree on the numeric positions, each parsed on its own
FromStrTwice ==
    /\ pc = "idle"
    /\ \E s \in PairTexts :
        \E t \in Variants(s) :
            /\ input' = s
            /\ result' = from_str(overflow_checks, s)
            /\ other' = t
            /\ other_result' = from_str(overflow_checks, t)
    /\ op' = "from_str_twice"
    /\ pc' = "done"
    /\ UNCHANGED <<overflow_checks, kind, raw, args>>

Next ==
    \/ TryFromU8
    \/ TryFromUsize
    \/ UnitFromStr
    \/ TryNew
    \/ FromStr
    \/ FromStrTwice

Spec == Init /\ [][Next]_vars

---------------------------------------------------------------------------
(* Vocabulary of the properties: what a text says, read without the parser *)

\* a non-empty text of decimal digits
IsNumeral(t) == t # <<>> /\ \A i \in 1..Len(t) : IsDigit(t[i])

\* the number a numeral denotes
RECURSIVE NumeralValue(_)
NumeralValue(t) ==
    IF t = <<>> THEN 0
    ELSE NumeralValue(SubSeq(t, 1, Len(t) - 1)) * 10 + DigitVal[t[Len(t)]]

\* the characters of a text: the two bytes of U+00E9 are one character
RECURSIVE Chars(_)
Chars(s) ==
    IF s = <<>> THEN <<>>
    ELSE IF Head(s) = "C3" THEN <<"U+00E9">> \o Chars(Tail(Tail(s)))
    ELSE <<Head(s)>> \o Chars(Tail(s))

IsAscii(s) == \A i \in 1..Len(s) : s[i] \notin {"C3", "A9"}

\* the six numeric fields of the layout YYYY-MM-DDThh:mm:ss, by position
FieldFirst == <<0, 5, 8, 11, 14, 17>>
FieldLast == <<3, 6, 9, 12, 15, 18>>
FieldOf(t, i) == SubSeq(t, FieldFirst[i] + 1, FieldLast[i] + 1)

\* the maximum of field i of the layout; the year has none
InRange(i, n) == i = 1 \/ n <= Max(FieldKind[i])

Least(S) == CHOOSE i \in S : \A j \in S : i <= j

Called(o) == pc = "done" /\ op = o

---------------------------------------------------------------------------
(* Properties of the unit types *)

\* C1: for every unit kind and every unsigned v, given as u8 or as usize
\* (values above 255 included), try_from(v) succeeds exactly when
\* v <= max of the kind, and the value it returns converts back to v.
C1_TryFromIffInRange ==
    (pc = "done" /\ op \in {"try_from_u8", "try_from_usize"}) =>
        /\ IsOk(result) <=> raw <= Max(kind)
        /\ IsErr(result) <=> raw > Max(kind)
        /\ IsOk(result) => Unit_into_usize(kind, result.val) = raw
        /\ IsOk(result) => Unit_into_u8(kind, result.val) = raw

\* a usize whose low eight bits are in range is refused
C1_Witness ==
    /\ Called("try_from_usize")
    /\ raw = U8Max + 1 + Max(kind)
    /\ IsErr(result)

\* C2: an overflow failure of try_from or of the unit parse carries the
\* name of the unit kind and the kind's maximum, and renders as
\* "<kind> must be between 0-<max>".
C2_OverflowNamesKind ==
    (/\ pc = "done"
     /\ op \in {"try_from_u8", "try_from_usize", "unit_from_str"}
     /\ IsErr(result)
     /\ result.err.variant = "Overflow") =>
        /\ result.err.field = kind
        /\ result.err.max = Max(kind)
        /\ Display(result.err) = kind \o " must be between 0-" \o ToString(Max(kind))

\* C3: the unit parse fails with a parse failure only on a text that is
\* not a decimal numeral; on a numeral n of any magnitude it succeeds with
\* n when n <= max and fails with overflow when n > max.
C3_NumeralIsRangeChecked ==
    Called("unit_from_str") =>
        /\ (IsErr(result) /\ result.err.variant = "Parse") => ~IsNumeral(input)
        /\ IsNumeral(input) =>
            IF NumeralValue(input) <= Max(kind)
            THEN result = Ok(NumeralValue(input))
            ELSE IsErr(result) /\ result.err.variant = "Overflow"

---------------------------------------------------------------------------
(* Properties of MockDateTime::try_new *)

\* the components of a try_new call that exceed their maximum
BadArgs == {i \in 2..6 : args[i] > Max(FieldKind[i])}

\* C4: try_new succeeds exactly when month <= 12, day <= 32, hour <= 24,
\* minute <= 60 and second <= 60, whatever the year; otherwise it returns
\* the overflow error of the first out-of-range component in the order
\* month, day, hour, minute, second.
C4_TryNewFirstInvalid ==
    Called("try_new") =>
        /\ IsOk(result) <=> BadArgs = {}
        /\ BadArgs # {} =>
            /\ IsErr(result)
            /\ result.err.variant = "Overflow"
            /\ result.err.max = Max(FieldKind[Least(BadArgs)])

\* month and day both out of range: the month's error is returned
C4_Witness ==
    /\ Called("try_new")
    /\ {2, 3} \subseteq BadArgs
    /\ IsErr(result)
    /\ result.err.max = MonthMax

\* C5: for in-range month, day, hour, minute, second and any year, the
\* value try_new returns reads back through the accessors as exactly the
\* six arguments.
C5_TryNewRoundTrip ==
    (Called("try_new") /\ BadArgs = {}) =>
        /\ IsOk(result)
        /\ year(result.val) = args[1]
        /\ month(result.val) = args[2]
        /\ day(result.val) = args[3]
        /\ hour(result.val) = args[4]
        /\ minute(result.val) = args[5]
        /\ second(result.val) = args[6]

\* every bounded component at its maximum
C5_Witness ==
    /\ Called("try_new")
    /\ args = <<2020, MonthMax, DayMax, HourMax, MinuteMax, SecondMax>>
    /\ IsOk(result)

---------------------------------------------------------------------------
(* Properties of the MockDateTime parser *)

\* the value field i of an ASCII text denotes: a numeral, or a numeral
\* after one leading '+' (which the integer parser skips)
Unsigned(f) == IF Head(f) = "+" THEN Tail(f) ELSE f
IsWellFormed(t, i) == IsNumeral(Unsigned(FieldOf(t, i)))
ValueOf(t, i) == NumeralValue(Unsigned(FieldOf(t, i)))

\* the fields of t that hold a byte the integer parser rejects
Malformed(t) == {i \in 1..6 : ~IsWellFormed(t, i)}
\* the fields of t that denote a number above their maximum
OutOfRange(t) == {i \in 1..6 : IsWellFormed(t, i) /\ ~InRange(i, ValueOf(t, i))}

\* C6: a 19-character text whose numeric fields are all digits with
\* 1 <= MM <= 12, 1 <= DD <= 32, hh <= 24, mm <= 60, ss <= 60 parses to
\* year YYYY, month MM - 1, day DD - 1, hour hh, minute mm, second ss;
\* "2020-09-24T13:21:00" parses to 2020, 8, 23, 13, 21, 0.
C6_ParseLayout ==
    (/\ Called("from_str")
     /\ IsAscii(input)
     /\ Len(input) = 19
     /\ \A i \in 1..6 : IsNumeral(FieldOf(input, i))
     /\ \A i \in 2..6 : InRange(i, NumeralValue(FieldOf(input, i)))
     /\ \A i \in 2..3 : NumeralValue(FieldOf(input, i)) >= 1) =>
        /\ result = Ok([year |-> NumeralValue(FieldOf(input, 1)),
                        month |-> NumeralValue(FieldOf(input, 2)) - 1,
                        day |-> NumeralValue(FieldOf(input, 3)) - 1,
                        hour |-> NumeralValue(FieldOf(input, 4)),
                        minute |-> NumeralValue(FieldOf(input, 5)),
                        second |-> NumeralValue(FieldOf(input, 6))])
        /\ input = BaseText =>
            /\ year(result.val) = 2020 /\ month(result.val) = 8 /\ day(result.val) = 23
            /\ hour(result.val) = 13 /\ minute(result.val) = 21 /\ second(result.val) = 0

\* month and day at their maxima: "2020-12-32T13:21:00"
C6_Witness ==
    /\ Called("from_str")
    /\ input = Assemble(<<FourDigits(2020), TwoDigits(MonthMax), TwoDigits(DayMax),
                          TwoDigits(13), TwoDigits(21), TwoDigits(0)>>, Delimiters)
    /\ IsOk(result)
    /\ month(result.val) = MonthMax - 1
    /\ day(result.val) = DayMax - 1

\* C7 as stated: a 19-character text with a non-digit character at some
\* numeric position fails with a parse failure, whichever the field, the
\* character and the other fields.
C7_NonDigitIsParseFailure ==
    (/\ Called("from_str")
     /\ Len(Chars(input)) = 19
     /\ \E i \in 1..6 : ~IsNumeral(FieldOf(Chars(input), i))) =>
        IsErr(result) /\ result.err.variant = "Parse"

\* C7 amended: a 19-byte ASCII text with a field that holds a non-digit
\* other than one leading '+' never parses; the outcome is decided by the
\* first field, in the order year, month, day, hour, minute, second, that
\* is malformed or out of range: a parse failure if it is malformed, that
\* field's overflow if it is out of range.
C7_MalformedNeverParses ==
    (/\ Called("from_str")
     /\ IsAscii(input)
     /\ Len(input) = 19
     /\ Malformed(input) # {}) =>
        LET first == Least(Malformed(input) \cup OutOfRange(input)) IN
        /\ IsErr(result)
        /\ first \in Malformed(input) => result.err.variant = "Parse"
        /\ first \in OutOfRange(input) =>
            /\ result.err.variant = "Overflow"
            /\ result.err.max = Max(FieldKind[first])

\* a letter in the day field, nothing wrong before it
C7_Witness ==
    /\ Called("from_str")
    /\ IsAscii(input)
    /\ Len(input) = 19
    /\ FieldOf(input, 3) = <<"1", "X">>
    /\ Malformed(input) \cup OutOfRange(input) = {3}
    /\ IsErr(result)
    /\ result.err.variant = "Parse"

\* C8: try_from, the unit parse, try_new and the composite parse return a
\* value or a DateTimeError for every input; none of them aborts.
C8_NeverAborts ==
    pc = "done" => ~IsPanic(result) /\ ~IsPanic(other_result)

\* C9: every composite that try_new or the composite parse returns has
\* month in 0..12, day in 0..32, hour in 0..24, minute in 0..60 and second
\* in 0..60, texts whose month or day field is "00" included.
C9_CompositeInRange ==
    (pc = "done" /\ op \in {"try_new", "from_str"} /\ IsOk(result)) =>
        /\ month(result.val) \in 0..MonthMax
        /\ day(result.val) \in 0..DayMax
        /\ hour(result.val) \in 0..HourMax
        /\ minute(result.val) \in 0..MinuteMax
        /\ second(result.val) \in 0..SecondMax

\* the fields of t whose own parse does not succeed
Invalid(t) ==
    {i \in 1..6 :
        ~IsOk(IF i = 1 THEN parse_usize(FieldOf(t, i)) ELSE Unit_from_str(FieldKind[i], FieldOf(t, i)))}

\* what the parse of field i alone returns
FieldOutcome(t, i) ==
    IF i = 1 THEN parse_usize(FieldOf(t, i)) ELSE Unit_from_str(FieldKind[i], FieldOf(t, i))

\* C10: two ASCII texts of at least 19 bytes that agree on the positions
\* 0-3, 5-6, 8-9, 11-12, 14-15 and 17-18 parse to the same outcome,
\* whatever stands at the delimiters and after position 18; and with
\* several invalid fields the error is that of the first one in the order
\* year, month, day, hour, minute, second.
C10_OnlyFieldPositionsRead ==
    (/\ Called("from_str_twice")
     /\ IsAscii(input) /\ IsAscii(other)
     /\ Len(input) >= 19 /\ Len(other) >= 19
     /\ \A i \in 1..6 : FieldOf(input, i) = FieldOf(other, i)) =>
        /\ result = other_result
        /\ Invalid(input) # {} => result = FieldOutcome(input, Least(Invalid(input)))
        /\ Invalid(other) # {} => other_result = FieldOutcome(other, Least(Invalid(other)))

\* two invalid fields, a digit in place of a delimiter and a longer text
C10_Witness ==
    /\ Called("from_str_twice")
    /\ Cardinality(Invalid(input)) >= 2
    /\ Len(other) > Len(input)
    /\ \E p \in DelimiterOffsets : input[p + 1] # other[p + 1]
    /\ IsErr(result)
    /\ result = other_result

=============================================================================



